---- MODULE Spec2Model ----
(***************************************************************************)
(* N-Queens CSP engine of Project-2: the constraint model, the AC3         *)
(* propagator, the MRV / LCV heuristics, the backtracking driver and the   *)
(* orchestration in solve_nqueens_csp.                                     *)
(*                                                                         *)
(* Python sets are modelled as TLA+ sets, lists and the deque as           *)
(* sequences, dicts keyed by range(n) as functions on 0..n-1.  Where the   *)
(* code iterates a set of ints (list(domains[row])), CPython visits the    *)
(* values in ascending order as long as they are smaller than the hash     *)
(* table (8 slots at least), which covers every board size checked here.   *)
(***************************************************************************)
EXTENDS Integers, Sequences, FiniteSets, TLC

VARIABLES
    n,              \* board size passed to solve_nqueens_csp
    domains,        \* domains[r]: set of candidate columns of row r
    neighbors,      \* neighbors[r]: list of the rows constraining r
    assignment,     \* assignment[r]: column of row r, or None
    queue,          \* AC3's deque of arcs <<Xi, Xj>>
    ac3_caller,     \* who called the running AC3: "solve", "search", "harness"
    ac3_entry,      \* history: the domains when the running AC3 was called
    ac3_result,     \* return value of the last AC3 call
    stack,          \* frames of backtracking_search, innermost last
    bt_result,      \* return value of the last backtracking_search call
    result,         \* return value of solve_nqueens_csp: <<>> is None, <<a>> is a
    pc,             \* control position
    trace,          \* history: the (row, col) candidates visited by this run
    trials,         \* history: trials[k] is the partial assignment under
                    \* which trace[k] was tried
    runs,           \* number of calls of solve_nqueens_csp so far
    prev,           \* history: trace and result of the previous call
    calls,          \* history: calls of AC3 (by caller) and of
                    \* backtracking_search made by this run
    args,           \* arguments of a function called on its own
    ret             \* what that call returned

vars == <<n, domains, neighbors, assignment, queue, ac3_caller, ac3_entry,
          ac3_result, stack, bt_result, result, pc, trace, trials, runs,
          prev, calls, args, ret>>

(***************************************************************************)
(* Bounds of the model.                                                    *)
(***************************************************************************)
MaxN == 6        \* board sizes 1..MaxN are solved
MaxRuns == 2     \* solve_nqueens_csp is called at most MaxRuns times per n
MaxArcN == 4     \* AC3 alone is run on boards of size 1..MaxArcN
MaxFullN == 3    \* ... on every domain family up to this size
MaxAnyN == 3     \* AC3 in any order is run on boards of 1..MaxAnyN rows
MaxCoord == 4    \* conflict is called on rows and columns 0..MaxCoord
MaxHeurN == 3    \* the heuristics are called on boards of size 1..MaxHeurN
MaxSearchN == 4  \* backtracking_search alone: boards of size 1..MaxSearchN
MaxDigits == 4   \* main is run on numerals of 1..MaxDigits digits

None == -1

Rows(k) == 0 .. (k - 1)
Cols(k) == 0 .. (k - 1)

Abs(x) == IF x < 0 THEN -x ELSE x

Range(s) == {s[i] : i \in DOMAIN s}

(***************************************************************************)
(* ac3.py                                                                  *)
(***************************************************************************)
\* conflict with the diagonal test in one direction of the columns only
conflict_Directed(r1, c1, r2, c2) ==
    IF c1 = c2 THEN TRUE ELSE Abs(r1 - r2) = c1 - c2

\* conflict without the diagonal test
conflict_ColumnOnly(r1, c1, r2, c2) == c1 = c2

conflict(r1, c1, r2, c2) ==
    IF c1 = c2 THEN TRUE ELSE Abs(r1 - r2) = Abs(c1 - c2)

\* to_remove with "conflicts with some value" in place of "with every value"
to_remove_Any(doms, Xi, Xj) ==
    {vi \in doms[Xi] : \E vj \in doms[Xj] : conflict(Xi, vi, Xj, vj)}

\* the values revise collects in to_remove
to_remove(doms, Xi, Xj) ==
    {vi \in doms[Xi] : \A vj \in doms[Xj] : conflict(Xi, vi, Xj, vj)}

\* revise with the roles of the two rows exchanged when the domain is rebuilt
revise_Swapped(doms, Xi, Xj) ==
    LET gone == to_remove(doms, Xj, Xi)
    IN  [domains |-> [doms EXCEPT ![Xi] = doms[Xj] \ gone],
         removed |-> gone # {}]

\* revise: the domains after the removals, and the flag it returns
revise(doms, Xi, Xj) ==
    LET gone == to_remove(doms, Xi, Xj)
    IN  [domains |-> [doms EXCEPT ![Xi] = doms[Xi] \ gone],
         removed |-> gone # {}]

\* range(k) as a list
RangeSeq(k) == [i \in 1 .. k |-> i - 1]

RECURSIVE Flatten(_)
Flatten(ss) == IF ss = <<>> THEN <<>> ELSE Head(ss) \o Flatten(Tail(ss))

\* the arcs (r, nb) with r < nb only: each pair of rows in one direction
InitialArcs_OneDirection(k, nbs) ==
    Flatten([i \in 1 .. k |->
                SelectSeq([j \in 1 .. Len(nbs[i - 1]) |-> <<i - 1, nbs[i - 1][j]>>],
                          LAMBDA a : a[1] < a[2])])

\* the arcs AC3 puts in its queue at the start: (r, nb) for r in range(n),
\* nb in neighbors[r]
InitialArcs(k, nbs) ==
    Flatten([i \in 1 .. k |->
                [j \in 1 .. Len(nbs[i - 1]) |-> <<i - 1, nbs[i - 1][j]>>]])

\* Requeue that appends nothing
Requeue_Nothing(nbs, Xi, Xj) == <<>>

\* Requeue without the test Xk != Xj
Requeue_IncludingXj(nbs, Xi, Xj) ==
    [j \in 1 .. Len(nbs[Xi]) |-> <<nbs[Xi][j], Xi>>]

\* the arcs appended after a revision of (Xi, Xj) that removed a value
Requeue(nbs, Xi, Xj) ==
    LET keep(Xk) == Xk # Xj
        arcs == [j \in 1 .. Len(nbs[Xi]) |-> <<nbs[Xi][j], Xi>>]
    IN  SelectSeq(arcs, LAMBDA a : keep(a[1]))

(***************************************************************************)
(* nqueens_csp.py: the structures solve_nqueens_csp builds                 *)
(***************************************************************************)
\* domains with 1-based columns
InitialDomains_OneBased(k) == [r \in Rows(k) |-> 1 .. k]

InitialDomains(k) == [r \in Rows(k) |-> Cols(k)]

\* neighbors listing a row beyond the last one
InitialNeighbors_ExtraRow(k) ==
    [r \in Rows(k) |-> SelectSeq(RangeSeq(k + 1), LAMBDA x : x # r)]

InitialNeighbors(k) ==
    [r \in Rows(k) |-> SelectSeq(RangeSeq(k), LAMBDA x : x # r)]

InitialAssignment(k) == [r \in Rows(k) |-> None]

(***************************************************************************)
(* Python's list.sort(key=...): a stable sort, ascending by key.  Keys are *)
(* tuples of ints compared lexicographically; key is a function from the   *)
(* elements of the list to their key tuples.                               *)
(***************************************************************************)
TupleLess(a, b) ==
    \E i \in 1 .. Len(a) : a[i] < b[i] /\ \A j \in 1 .. (i - 1) : a[j] = b[j]

\* the element at index i goes behind every element with a smaller key and
\* behind every earlier element with an equal key
StableSort(s, key) ==
    [p \in 1 .. Len(s) |->
        s[CHOOSE i \in 1 .. Len(s) :
            Cardinality({j \in 1 .. Len(s) :
                            \/ TupleLess(key[s[j]], key[s[i]])
                            \/ key[s[j]] = key[s[i]] /\ j < i}) = p - 1]]

\* list(S) for a set S of small ints: ascending
RECURSIVE ListOfSet(_)
ListOfSet(S) ==
    IF S = {} THEN <<>>
    ELSE LET m == CHOOSE x \in S : \A y \in S : x <= y
         IN  <<m>> \o ListOfSet(S \ {m})

(***************************************************************************)
(* heuristics.py                                                           *)
(***************************************************************************)
\* the sort of select_unassigned_row by domain size alone
sorted_unassigned_rows_NoTieBreak(doms, unassigned_rows, nbs) ==
    StableSort(unassigned_rows,
               [r \in Range(unassigned_rows) |-> <<Cardinality(doms[r])>>])

\* unassigned_rows after the in-place sort of select_unassigned_row
sorted_unassigned_rows(doms, unassigned_rows, nbs) ==
    StableSort(unassigned_rows,
               [r \in Range(unassigned_rows) |->
                    <<Cardinality(doms[r]), -Len(nbs[r])>>])

\* the first row of the list sorted from its last element to its first
select_unassigned_row_FromLast(doms, unassigned_rows, nbs) ==
    sorted_unassigned_rows(doms,
                           [i \in 1 .. Len(unassigned_rows) |->
                               unassigned_rows[Len(unassigned_rows) + 1 - i]],
                           nbs)[1]

select_unassigned_row(doms, unassigned_rows, nbs) ==
    sorted_unassigned_rows(doms, unassigned_rows, nbs)[1]

constraining_cost(row, col, doms, nbs) ==
    Cardinality({p \in (1 .. Len(nbs[row])) \X UNION Range(doms) :
                    /\ p[2] \in doms[nbs[row][p[1]]]
                    /\ conflict(row, col, nbs[row][p[1]], p[2])})

\* order_domain_values starting from the values in descending order
order_domain_values_LastFirst(row, doms, nbs) ==
    StableSort([i \in 1 .. Cardinality(doms[row]) |->
                   ListOfSet(doms[row])[Cardinality(doms[row]) + 1 - i]],
               [col \in doms[row] |-> <<constraining_cost(row, col, doms, nbs)>>])

order_domain_values(row, doms, nbs) ==
    StableSort(ListOfSet(doms[row]),
               [col \in doms[row] |-> <<constraining_cost(row, col, doms, nbs)>>])

(***************************************************************************)
(* backtracking.py: helpers of backtracking_search                         *)
(***************************************************************************)
\* unassigned rows taken from range(n - 1)
unassigned_rows_of_ShortRange(asg, k) ==
    SelectSeq(RangeSeq(k - 1), LAMBDA r : asg[r] = None)

\* [r for r in range(n) if assignment[r] is None]
unassigned_rows_of(asg, k) == SelectSeq(RangeSeq(k), LAMBDA r : asg[r] = None)

\* any(conflict(row, col, r2, assignment[r2]) for assigned r2)
conflicts_with_assigned(row, col, asg, k) ==
    \E r2 \in Rows(k) : asg[r2] # None /\ conflict(row, col, r2, asg[r2])

\* saved_domains = {r: set(domains[r]) for r in range(n)}
Snapshot(doms, k) == [r \in Rows(k) |-> doms[r]]

\* Restore over range(n - 1)
Restore_ShortRange(doms, saved, k) ==
    [r \in DOMAIN doms |-> IF r \in Rows(k - 1) THEN saved[r] ELSE doms[r]]

\* for r in range(n): domains[r] = saved_domains[r]
Restore(doms, saved, k) ==
    [r \in DOMAIN doms |-> IF r \in Rows(k) THEN saved[r] ELSE doms[r]]

NoCalls == [ac3 |-> [solve |-> 0, search |-> 0, harness |-> 0], bt |-> 0]

Top == stack[Len(stack)]
Pop == SubSeq(stack, 1, Len(stack) - 1)
SetTop(f) == [stack EXCEPT ![Len(stack)] = f]

(***************************************************************************)
(* Initial state: solve_nqueens_csp(n) has built its structures and is     *)
(* about to run the first AC3.                                             *)
(***************************************************************************)
SolveSetup(k) ==
    /\ n = k
    /\ domains = InitialDomains(k)
    /\ neighbors = InitialNeighbors(k)
    /\ assignment = InitialAssignment(k)
    /\ queue = <<>>
    /\ ac3_caller = "solve"
    /\ ac3_entry = InitialDomains(k)
    /\ ac3_result = FALSE
    /\ stack = <<>>
    /\ bt_result = FALSE
    /\ result = <<>>
    /\ pc = "ac3_call"
    /\ trace = <<>>
    /\ trials = <<>>
    /\ calls = NoCalls
    /\ args = <<>>
    /\ ret = <<>>

Init ==
    /\ \E k \in 1 .. MaxN : SolveSetup(k)
    /\ runs = 1
    /\ prev = [trace |-> <<>>, result |-> <<>>]

(***************************************************************************)
(* AC3                                                                     *)
(***************************************************************************)
\* ac3.py 13-17: fill the queue with all arcs
AC3_Begin ==
    /\ pc = "ac3_call"
    /\ queue' = InitialArcs(n, neighbors)
    /\ ac3_entry' = domains
    /\ pc' = "ac3_loop"
    /\ calls' = [calls EXCEPT !.ac3[ac3_caller] = @ + 1]
    /\ UNCHANGED <<n, domains, neighbors, assignment, ac3_caller, ac3_result,
                   stack, bt_result, result, trace, trials, runs, prev, args,
                   ret>>

\* the loop iteration without the test for an emptied domain
AC3_Revise_NoWipeoutCheck ==
    /\ pc = "ac3_loop"
    /\ queue # <<>>
    /\ LET Xi == Head(queue)[1]
           Xj == Head(queue)[2]
           rv == revise(domains, Xi, Xj)
       IN  /\ domains' = rv.domains
           /\ queue' = IF rv.removed
                       THEN Tail(queue) \o Requeue(neighbors, Xi, Xj)
                       ELSE Tail(queue)
    /\ UNCHANGED <<n, neighbors, assignment, ac3_caller, ac3_entry, ac3_result,
                   stack, bt_result, result, pc, trace, trials, runs, prev,
                   calls, args, ret>>

\* AC3_Revise that appends the arcs whether or not a value was removed
AC3_Revise_AlwaysRequeue ==
    /\ pc = "ac3_loop"
    /\ queue # <<>>
    /\ LET Xi == Head(queue)[1]
           Xj == Head(queue)[2]
           rv == revise(domains, Xi, Xj)
       IN  /\ domains' = rv.domains
           /\ IF rv.removed /\ rv.domains[Xi] = {}
              THEN /\ queue' = Tail(queue)
                   /\ ac3_result' = FALSE
                   /\ pc' = "ac3_ret"
              ELSE /\ queue' = Tail(queue) \o Requeue(neighbors, Xi, Xj)
                   /\ UNCHANGED <<ac3_result, pc>>
    /\ UNCHANGED <<n, neighbors, assignment, ac3_caller, ac3_entry, stack,
                   bt_result, result, trace, trials, runs, prev, calls, args,
                   ret>>

\* ac3.py 19-27: one iteration of the while loop
AC3_Revise ==
    /\ pc = "ac3_loop"
    /\ queue # <<>>
    /\ LET Xi == Head(queue)[1]
           Xj == Head(queue)[2]
           rv == revise(domains, Xi, Xj)
       IN  /\ domains' = rv.domains
           /\ IF rv.removed
              THEN IF rv.domains[Xi] = {}
                   THEN /\ queue' = Tail(queue)
                        /\ ac3_result' = FALSE
                        /\ pc' = "ac3_ret"
                   ELSE /\ queue' = Tail(queue) \o Requeue(neighbors, Xi, Xj)
                        /\ UNCHANGED <<ac3_result, pc>>
              ELSE /\ queue' = Tail(queue)
                   /\ UNCHANGED <<ac3_result, pc>>
    /\ UNCHANGED <<n, neighbors, assignment, ac3_caller, ac3_entry, stack,
                   bt_result, result, trace, trials, runs, prev, calls, args,
                   ret>>

\* ac3.py 19, 28: the queue is empty
AC3_Exhausted ==
    /\ pc = "ac3_loop"
    /\ queue = <<>>
    /\ ac3_result' = TRUE
    /\ pc' = "ac3_ret"
    /\ UNCHANGED <<n, domains, neighbors, assignment, queue, ac3_caller,
                   ac3_entry, stack, bt_result, result, trace, trials, runs,
                   prev, calls, args, ret>>

(***************************************************************************)
(* solve_nqueens_csp                                                       *)
(***************************************************************************)
\* Solve_AfterAC3 that goes on to the search whatever AC3 returned
Solve_AfterAC3_Ungated ==
    /\ pc = "ac3_ret"
    /\ ac3_caller = "solve"
    /\ pc' = "bt_call"
    /\ UNCHANGED <<n, domains, neighbors, assignment, queue, ac3_caller,
                   ac3_entry, ac3_result, stack, bt_result, result, trace,
                   trials, runs, prev, calls, args, ret>>

\* nqueens_csp.py 30-34: the first AC3 has returned
Solve_AfterAC3 ==
    /\ pc = "ac3_ret"
    /\ ac3_caller = "solve"
    /\ IF ac3_result
       THEN /\ pc' = "bt_call"
            /\ UNCHANGED result
       ELSE /\ result' = <<>>
            /\ pc' = "done"
    /\ UNCHANGED <<n, domains, neighbors, assignment, queue, ac3_caller,
                   ac3_entry, ac3_result, stack, bt_result, trace, trials,
                   runs, prev, calls, args, ret>>

\* nqueens_csp.py 34-35: the top call of backtracking_search has returned
Solve_Return ==
    /\ pc = "bt_ret"
    /\ stack = <<>>
    /\ result' = IF bt_result THEN <<assignment>> ELSE <<>>
    /\ pc' = "done"
    /\ UNCHANGED <<n, domains, neighbors, assignment, queue, ac3_caller,
                   ac3_entry, ac3_result, stack, bt_result, trace, trials,
                   runs, prev, calls, args, ret>>

\* the caller runs solve_nqueens_csp(n) once more with the same n
\* (nqueens_csp.py 20-27 build fresh structures)
Solve_Again ==
    /\ pc = "done"
    /\ ac3_caller # "harness"
    /\ runs < MaxRuns
    /\ runs' = runs + 1
    /\ prev' = [trace |-> trace, result |-> result]
    /\ n' = n
    /\ domains' = InitialDomains(n)
    /\ neighbors' = InitialNeighbors(n)
    /\ assignment' = InitialAssignment(n)
    /\ queue' = <<>>
    /\ ac3_caller' = "solve"
    /\ ac3_entry' = InitialDomains(n)
    /\ ac3_result' = FALSE
    /\ stack' = <<>>
    /\ bt_result' = FALSE
    /\ result' = <<>>
    /\ pc' = "ac3_call"
    /\ trace' = <<>>
    /\ trials' = <<>>
    /\ calls' = NoCalls
    /\ UNCHANGED <<args, ret>>

(***************************************************************************)
(* backtracking_search.  A frame holds the locals of one call; the fields  *)
(* entry_domains, entry_assignment, pre_domains and failed are history: the *)
(* state at the call's entry, the domains right before the current         *)
(* tentative assignment, and why the last tentative assignment failed      *)
(* ("ac3", "recursion", or "" when none has failed since).                 *)
(***************************************************************************)
\* backtracking.py 19-21: every row is assigned
BT_Complete ==
    /\ pc = "bt_call"
    /\ unassigned_rows_of(assignment, n) = <<>>
    /\ bt_result' = TRUE
    /\ pc' = "bt_ret"
    /\ calls' = [calls EXCEPT !.bt = @ + 1]
    /\ UNCHANGED <<n, domains, neighbors, assignment, queue, ac3_caller,
                   ac3_entry, ac3_result, stack, result, trace, trials, runs,
                   prev, args, ret>>

\* row selection that breaks ties among the smallest domains at random
BT_Select_RandomTie ==
    /\ pc = "bt_call"
    /\ unassigned_rows_of(assignment, n) # <<>>
    /\ LET unassigned_rows == unassigned_rows_of(assignment, n)
           first == select_unassigned_row(domains, unassigned_rows, neighbors)
       IN  \E row \in Range(unassigned_rows) :
              /\ Cardinality(domains[row]) = Cardinality(domains[first])
              /\ stack' = Append(stack,
                   [row |-> row,
                    unassigned_rows |->
                        sorted_unassigned_rows(domains, unassigned_rows, neighbors),
                    candidate_cols |-> order_domain_values(row, domains, neighbors),
                    i |-> 1,
                    saved_domains |-> <<>>,
                    entry_domains |-> domains,
                    entry_assignment |-> assignment,
                    pre_domains |-> domains,
                    failed |-> ""])
    /\ pc' = "bt_loop"
    /\ calls' = [calls EXCEPT !.bt = @ + 1]
    /\ UNCHANGED <<n, domains, neighbors, assignment, queue, ac3_caller,
                   ac3_entry, ac3_result, bt_result, result, trace, trials,
                   runs, prev, args, ret>>

\* backtracking.py 19-27: choose the row (MRV) and order its columns (LCV)
BT_Select ==
    /\ pc = "bt_call"
    /\ unassigned_rows_of(assignment, n) # <<>>
    /\ \E unassigned_rows \in {unassigned_rows_of(assignment, n)} :
       \E row \in {select_unassigned_row(domains, unassigned_rows, neighbors)} :
           stack' = Append(stack,
               [row |-> row,
                unassigned_rows |->
                    sorted_unassigned_rows(domains, unassigned_rows, neighbors),
                candidate_cols |-> order_domain_values(row, domains, neighbors),
                i |-> 1,
                saved_domains |-> <<>>,
                entry_domains |-> domains,
                entry_assignment |-> assignment,
                pre_domains |-> domains,
                failed |-> ""])
    /\ pc' = "bt_loop"
    /\ calls' = [calls EXCEPT !.bt = @ + 1]
    /\ UNCHANGED <<n, domains, neighbors, assignment, queue, ac3_caller,
                   ac3_entry, ac3_result, bt_result, result, trace, trials,
                   runs, prev, args, ret>>

\* backtracking.py 29, 52: no candidate column is left
BT_Exhausted ==
    /\ pc = "bt_loop"
    /\ Top.i > Len(Top.candidate_cols)
    /\ stack' = Pop
    /\ bt_result' = FALSE
    /\ pc' = "bt_ret"
    /\ UNCHANGED <<n, domains, neighbors, assignment, queue, ac3_caller,
                   ac3_entry, ac3_result, result, trace, trials, runs, prev,
                   calls, args, ret>>

\* BT_Trial without line 40: the row's domain is not collapsed
BT_Trial_NoCollapse ==
    /\ pc = "bt_loop"
    /\ Top.i <= Len(Top.candidate_cols)
    /\ LET row == Top.row
           col == Top.candidate_cols[Top.i]
       IN  /\ trace' = Append(trace, <<row, col>>)
           /\ trials' = Append(trials, assignment)
           /\ IF ~conflicts_with_assigned(row, col, assignment, n)
              THEN /\ assignment' = [assignment EXCEPT ![row] = col]
                   /\ stack' = SetTop([Top EXCEPT
                                        !.saved_domains = Snapshot(domains, n),
                                        !.pre_domains = domains,
                                        !.failed = ""])
                   /\ ac3_caller' = "search"
                   /\ pc' = "ac3_call"
                   /\ UNCHANGED domains
              ELSE /\ stack' = SetTop([Top EXCEPT !.i = @ + 1])
                   /\ UNCHANGED <<assignment, domains, ac3_caller, pc>>
    /\ UNCHANGED <<n, neighbors, queue, ac3_entry, ac3_result, bt_result,
                   result, runs, prev, calls, args, ret>>

\* BT_Trial without the test of line 31: every candidate is assigned
BT_Trial_NoQuickCheck ==
    /\ pc = "bt_loop"
    /\ Top.i <= Len(Top.candidate_cols)
    /\ LET row == Top.row
           col == Top.candidate_cols[Top.i]
       IN  /\ trace' = Append(trace, <<row, col>>)
           /\ trials' = Append(trials, assignment)
           /\ assignment' = [assignment EXCEPT ![row] = col]
           /\ stack' = SetTop([Top EXCEPT
                                !.saved_domains = Snapshot(domains, n),
                                !.pre_domains = domains,
                                !.failed = ""])
           /\ domains' = [domains EXCEPT ![row] = {col}]
           /\ ac3_caller' = "search"
           /\ pc' = "ac3_call"
    /\ UNCHANGED <<n, neighbors, queue, ac3_entry, ac3_result, bt_result,
                   result, runs, prev, calls, args, ret>>

\* backtracking.py 29-43: one iteration of the loop over candidate_cols, up to
\* the call of AC3: skip the column if it conflicts with an assigned row, else
\* assign it, save the domains and collapse the row's domain
BT_Trial ==
    /\ pc = "bt_loop"
    /\ Top.i <= Len(Top.candidate_cols)
    /\ LET row == Top.row
           col == Top.candidate_cols[Top.i]
       IN  /\ trace' = Append(trace, <<row, col>>)
           /\ trials' = Append(trials, assignment)
           /\ IF ~conflicts_with_assigned(row, col, assignment, n)
              THEN /\ assignment' = [assignment EXCEPT ![row] = col]
                   /\ stack' = SetTop([Top EXCEPT
                                        !.saved_domains = Snapshot(domains, n),
                                        !.pre_domains = domains,
                                        !.failed = ""])
                   /\ domains' = [domains EXCEPT ![row] = {col}]
                   /\ ac3_caller' = "search"
                   /\ pc' = "ac3_call"
              ELSE /\ stack' = SetTop([Top EXCEPT !.i = @ + 1])
                   /\ UNCHANGED <<assignment, domains, ac3_caller, pc>>
    /\ UNCHANGED <<n, neighbors, queue, ac3_entry, ac3_result, bt_result,
                   result, runs, prev, calls, args, ret>>

\* BT_AfterAC3 that recurses whatever AC3 returned
BT_AfterAC3_AlwaysRecurse ==
    /\ pc = "ac3_ret"
    /\ ac3_caller = "search"
    /\ pc' = "bt_call"
    /\ UNCHANGED <<n, domains, neighbors, assignment, queue, ac3_caller,
                   ac3_entry, ac3_result, stack, bt_result, result, trace,
                   trials, runs, prev, calls, args, ret>>

\* backtracking.py 43-44: AC3 has returned to the frame
BT_AfterAC3 ==
    /\ pc = "ac3_ret"
    /\ ac3_caller = "search"
    /\ IF ac3_result
       THEN /\ pc' = "bt_call"
            /\ UNCHANGED stack
       ELSE /\ pc' = "bt_undo"
            /\ stack' = SetTop([Top EXCEPT !.failed = "ac3"])
    /\ UNCHANGED <<n, domains, neighbors, assignment, queue, ac3_caller,
                   ac3_entry, ac3_result, bt_result, result, trace, trials,
                   runs, prev, calls, args, ret>>

\* BT_AfterRecursion that goes on to the undo whatever the call returned
BT_AfterRecursion_IgnoreSuccess ==
    /\ pc = "bt_ret"
    /\ stack # <<>>
    /\ pc' = "bt_undo"
    /\ stack' = SetTop([Top EXCEPT !.failed = "recursion"])
    /\ UNCHANGED <<n, domains, neighbors, assignment, queue, ac3_caller,
                   ac3_entry, ac3_result, bt_result, result, trace, trials,
                   runs, prev, calls, args, ret>>

\* backtracking.py 44-45: the recursive call has returned to the frame
BT_AfterRecursion ==
    /\ pc = "bt_ret"
    /\ stack # <<>>
    /\ IF bt_result
       THEN /\ stack' = Pop
            /\ pc' = "bt_ret"
       ELSE /\ pc' = "bt_undo"
            /\ stack' = SetTop([Top EXCEPT !.failed = "recursion"])
    /\ UNCHANGED <<n, domains, neighbors, assignment, queue, ac3_caller,
                   ac3_entry, ac3_result, bt_result, result, trace, trials,
                   runs, prev, calls, args, ret>>

\* the undo without "assignment[row] = None"
BT_Backtrack_KeepAssignment ==
    /\ pc = "bt_undo"
    /\ domains' = Restore(domains, Top.saved_domains, n)
    /\ stack' = SetTop([Top EXCEPT !.i = @ + 1])
    /\ pc' = "bt_loop"
    /\ UNCHANGED <<n, neighbors, assignment, queue, ac3_caller, ac3_entry,
                   ac3_result, bt_result, result, trace, trials, runs, prev,
                   calls, args, ret>>

\* the undo of a loop that stays on the same candidate
BT_Backtrack_NoAdvance ==
    /\ pc = "bt_undo"
    /\ assignment' = [assignment EXCEPT ![Top.row] = None]
    /\ domains' = Restore(domains, Top.saved_domains, n)
    /\ stack' = SetTop([Top EXCEPT !.failed = ""])
    /\ pc' = "bt_loop"
    /\ UNCHANGED <<n, neighbors, queue, ac3_caller, ac3_entry, ac3_result,
                   bt_result, result, trace, trials, runs, prev, calls, args,
                   ret>>

\* backtracking.py 47-50: undo the assignment, restore the domains
BT_Backtrack ==
    /\ pc = "bt_undo"
    /\ assignment' = [assignment EXCEPT ![Top.row] = None]
    /\ domains' = Restore(domains, Top.saved_domains, n)
    /\ stack' = SetTop([Top EXCEPT !.i = @ + 1])
    /\ pc' = "bt_loop"
    /\ UNCHANGED <<n, neighbors, queue, ac3_caller, ac3_entry, ac3_result,
                   bt_result, result, trace, trials, runs, prev, calls, args,
                   ret>>

Next ==
    \/ AC3_Begin
    \/ AC3_Revise
    \/ AC3_Exhausted
    \/ Solve_AfterAC3
    \/ Solve_Return
    \/ Solve_Again
    \/ BT_Complete
    \/ BT_Select
    \/ BT_Exhausted
    \/ BT_Trial
    \/ BT_AfterAC3
    \/ BT_AfterRecursion
    \/ BT_Backtrack

Spec == Init /\ [][Next]_vars

\* the interpreter runs one thread: a step that can be taken is taken
SpecFair == Spec /\ WF_vars(Next)

(***************************************************************************)
(* AC3 on its own: AC3(domains, neighbors, n) called on the complete       *)
(* neighbor relation and on domains drawn from a bounded family: every     *)
(* family of column sets for n <= MaxFullN; for larger n, every row's      *)
(* domain is full, a single column, or empty.                              *)
(***************************************************************************)
ArcInputs(k) ==
    IF k <= MaxFullN
    THEN [Rows(k) -> SUBSET Cols(k)]
    ELSE [Rows(k) -> {Cols(k)} \cup {D \in SUBSET Cols(k) : Cardinality(D) <= 1}]

InitAC3 ==
    /\ \E k \in 1 .. MaxArcN :
          /\ n = k
          /\ domains \in ArcInputs(k)
          /\ neighbors = InitialNeighbors(k)
          /\ assignment = InitialAssignment(k)
    /\ queue = <<>>
    /\ ac3_caller = "harness"
    /\ ac3_entry = domains
    /\ ac3_result = FALSE
    /\ stack = <<>>
    /\ bt_result = FALSE
    /\ result = <<>>
    /\ pc = "ac3_call"
    /\ trace = <<>>
    /\ trials = <<>>
    /\ runs = 1
    /\ prev = [trace |-> <<>>, result |-> <<>>]
    /\ calls = NoCalls
    /\ args = <<>>
    /\ ret = <<>>

\* AC3 is called once more on the domains a successful run has left
Harness_Again ==
    /\ pc = "ac3_ret"
    /\ ac3_caller = "harness"
    /\ ac3_result
    /\ runs < MaxRuns
    /\ runs' = runs + 1
    /\ pc' = "ac3_call"
    /\ UNCHANGED <<n, domains, neighbors, assignment, queue, ac3_caller,
                   ac3_entry, ac3_result, stack, bt_result, result, trace,
                   trials, prev, calls, args, ret>>

NextAC3 ==
    \/ Next
    \/ Harness_Again

\* the AC3 runs of the solver together with those on the input family
SpecAC3 == (Init \/ InitAC3) /\ [][NextAC3]_vars

\* the program is one thread that runs each call to its end: a step of AC3
\* that can be taken is taken
SpecAC3Fair ==
    /\ SpecAC3
    /\ WF_vars(AC3_Begin)
    /\ WF_vars(AC3_Revise)
    /\ WF_vars(AC3_Exhausted)

(***************************************************************************)
(* AC3 with the arcs dequeued in any order: the loop of ac3.py 19-27 with  *)
(* an arbitrary queued arc taken in place of the leftmost one.  As any arc  *)
(* may be taken next, the position of an arc in the deque carries no       *)
(* information here, and the deque is kept as a bag: a list in arc order.  *)
(***************************************************************************)
\* s without its i-th element
RemoveAt(s, i) == SubSeq(s, 1, i - 1) \o SubSeq(s, i + 1, Len(s))

\* the arcs of q in ascending order (a canonical list of the bag of arcs)
AsBag(q) == StableSort(q, [a \in Range(q) |-> a])

AC3_ReviseAny ==
    /\ pc = "ac3_loop"
    /\ \E i \in 1 .. Len(queue) :
          LET Xi == queue[i][1]
              Xj == queue[i][2]
              rv == revise(domains, Xi, Xj)
          IN  /\ domains' = rv.domains
              /\ IF rv.removed
                 THEN IF rv.domains[Xi] = {}
                      THEN /\ queue' = RemoveAt(queue, i)
                           /\ ac3_result' = FALSE
                           /\ pc' = "ac3_ret"
                      ELSE /\ queue' = AsBag(RemoveAt(queue, i)
                                                \o Requeue(neighbors, Xi, Xj))
                           /\ UNCHANGED <<ac3_result, pc>>
                 ELSE /\ queue' = RemoveAt(queue, i)
                      /\ UNCHANGED <<ac3_result, pc>>
    /\ UNCHANGED <<n, neighbors, assignment, ac3_caller, ac3_entry, stack,
                   bt_result, result, trace, trials, runs, prev, calls, args,
                   ret>>

\* the inputs of the runs in any order, on boards of k rows and k + 1
\* columns (three rows need a fourth column for a placement to exist): every
\* family of column sets up to three rows; beyond, where the orders of the
\* arcs are too many to enumerate for more, the full domains and the full
\* domains with row 0 collapsed to column 1
AnyOrderInputs(k) ==
    IF k <= 3
    THEN [Rows(k) -> SUBSET Cols(k + 1)]
    ELSE {[r \in Rows(k) |-> Cols(k + 1)],
          [r \in Rows(k) |-> IF r = 0 THEN {1} ELSE Cols(k + 1)]}

InitAnyOrder ==
    /\ \E k \in 1 .. MaxAnyN :
          /\ n = k
          /\ domains \in AnyOrderInputs(k)
          /\ neighbors = InitialNeighbors(k)
          /\ assignment = InitialAssignment(k)
    /\ queue = <<>>
    /\ ac3_caller = "harness"
    /\ ac3_entry = domains
    /\ ac3_result = FALSE
    /\ stack = <<>>
    /\ bt_result = FALSE
    /\ result = <<>>
    /\ pc = "ac3_call"
    /\ trace = <<>>
    /\ trials = <<>>
    /\ runs = 1
    /\ prev = [trace |-> <<>>, result |-> <<>>]
    /\ calls = NoCalls
    /\ args = <<>>
    /\ ret = <<>>

NextAnyOrder ==
    \/ AC3_Begin
    \/ AC3_ReviseAny
    \/ AC3_Exhausted

SpecAnyOrder == InitAnyOrder /\ [][NextAnyOrder]_vars

\* AC3(domains, neighbors, n) as a function of its arguments: the verdict and
\* the domains it leaves, with the arcs taken from the left of the queue
RECURSIVE AC3_loop(_, _, _)
AC3_loop(doms, q, nbs) ==
    IF q = <<>> THEN [result |-> TRUE, domains |-> doms]
    ELSE LET Xi == Head(q)[1]
             Xj == Head(q)[2]
             rv == revise(doms, Xi, Xj)
         IN  IF rv.removed
             THEN IF rv.domains[Xi] = {}
                  THEN [result |-> FALSE, domains |-> rv.domains]
                  ELSE AC3_loop(rv.domains, Tail(q) \o Requeue(nbs, Xi, Xj), nbs)
             ELSE AC3_loop(rv.domains, Tail(q), nbs)

AC3(doms, nbs, k) == AC3_loop(doms, InitialArcs(k, nbs), nbs)

(***************************************************************************)
(* Functions called on their own, outside a run of solve_nqueens_csp: the  *)
(* arguments are in args, the call is one step, the value returned is the  *)
(* one element of ret.                                                     *)
(***************************************************************************)
\* the variables of the solver while a function is called on its own
NoSolver ==
    /\ queue = <<>>
    /\ ac3_caller = "harness"
    /\ ac3_result = FALSE
    /\ stack = <<>>
    /\ bt_result = FALSE
    /\ result = <<>>
    /\ trace = <<>>
    /\ trials = <<>>
    /\ runs = 1
    /\ prev = [trace |-> <<>>, result |-> <<>>]
    /\ calls = NoCalls

\* ac3.py 53: the arguments of conflict
InitConflict ==
    /\ NoSolver
    /\ n = 0
    /\ domains = <<>>
    /\ neighbors = <<>>
    /\ assignment = <<>>
    /\ ac3_entry = <<>>
    /\ pc = "conflict_call"
    /\ args \in [r1 : 0 .. MaxCoord, c1 : 0 .. MaxCoord,
                  r2 : 0 .. MaxCoord, c2 : 0 .. MaxCoord]
    /\ ret = <<>>

\* ac3.py 53-59
Call_conflict ==
    /\ pc = "conflict_call"
    /\ ret' = <<conflict(args.r1, args.c1, args.r2, args.c2)>>
    /\ pc' = "conflict_ret"
    /\ UNCHANGED <<n, domains, neighbors, assignment, queue, ac3_caller,
                   ac3_entry, ac3_result, stack, bt_result, result, trace,
                   trials, runs, prev, calls, args>>

SpecConflict == InitConflict /\ [][Call_conflict]_vars

\* the ascending lists of the elements of the subsets of S
SubLists(S) == {ListOfSet(T) : T \in SUBSET S}

\* the prefixes of the list s
Prefixes(s) == {SubSeq(s, 1, j) : j \in 0 .. Len(s)}

\* heuristics.py 10: the arguments of select_unassigned_row.  The domains are
\* of every size from 1 to k, the neighbor lists are those solve_nqueens_csp
\* builds or these without their last row (so that rows differ in their number
\* of neighbors), unassigned_rows is a non-empty ascending list, as line 19 of
\* backtracking.py builds it.  args.unassigned_rows is the list object the
\* caller holds; args.passed is history: the arguments as they were passed.
InitSelect ==
    /\ NoSolver
    /\ \E k \in 1 .. MaxHeurN :
          /\ n = k
          /\ domains \in [Rows(k) -> {Cols(j) : j \in 1 .. k}]
          /\ neighbors \in
                {nbs \in [Rows(k) -> UNION {Prefixes(InitialNeighbors(k)[r]) :
                                                r \in Rows(k)}] :
                    \A r \in Rows(k) :
                       /\ nbs[r] \in Prefixes(InitialNeighbors(k)[r])
                       /\ Len(nbs[r]) >= k - 2}
          /\ assignment = InitialAssignment(k)
          /\ \E u \in SubLists(Rows(k)) \ {<<>>} :
                args = [unassigned_rows |-> u,
                        passed |-> [domains |-> domains,
                                    unassigned_rows |-> u,
                                    neighbors |-> neighbors]]
    /\ ac3_entry = domains
    /\ pc = "select_call"
    /\ ret = <<>>

\* heuristics.py 10-17: the list is sorted in place, its first row returned
Call_select_unassigned_row ==
    /\ pc = "select_call"
    /\ ret' = <<select_unassigned_row(domains, args.unassigned_rows, neighbors)>>
    /\ args' = [args EXCEPT !.unassigned_rows =
                   sorted_unassigned_rows(domains, args.unassigned_rows,
                                          neighbors)]
    /\ pc' = "select_ret"
    /\ UNCHANGED <<n, domains, neighbors, assignment, queue, ac3_caller,
                   ac3_entry, ac3_result, stack, bt_result, result, trace,
                   trials, runs, prev, calls>>

\* heuristics.py 19: the arguments of order_domain_values
InitOrder ==
    /\ NoSolver
    /\ \E k \in 1 .. MaxHeurN :
          /\ n = k
          /\ domains \in [Rows(k) -> SUBSET Cols(k)]
          /\ neighbors = InitialNeighbors(k)
          /\ assignment = InitialAssignment(k)
          /\ \E row \in Rows(k) :
                args = [row |-> row,
                        passed |-> [row |-> row,
                                    domains |-> domains,
                                    neighbors |-> neighbors]]
    /\ ac3_entry = domains
    /\ pc = "order_call"
    /\ ret = <<>>

\* heuristics.py 19-34: a new list is built, sorted and returned
Call_order_domain_values ==
    /\ pc = "order_call"
    /\ ret' = <<order_domain_values(args.row, domains, neighbors)>>
    /\ pc' = "order_ret"
    /\ UNCHANGED <<n, domains, neighbors, assignment, queue, ac3_caller,
                   ac3_entry, ac3_result, stack, bt_result, result, trace,
                   trials, runs, prev, calls, args>>

\* the heuristics called on their own, and as backtracking_search calls them
NextHeuristics ==
    \/ Next
    \/ Call_select_unassigned_row
    \/ Call_order_domain_values

SpecHeuristics == (Init \/ InitSelect \/ InitOrder) /\ [][NextHeuristics]_vars

(***************************************************************************)
(* backtracking_search on its own: called by a caller that has placed      *)
(* queens on some rows, no two in conflict, and collapsed the domains of   *)
(* these rows, without propagating; the other domains are full.  The       *)
(* caller returns what solve_nqueens_csp returns (nqueens_csp.py 34-35)    *)
(* and makes this one call (runs = MaxRuns).                               *)
(***************************************************************************)
\* the assignments of k rows with no two assigned rows in conflict
PartialPlacements(k) ==
    {a \in [Rows(k) -> Cols(k) \cup {None}] :
        \A r1, r2 \in Rows(k) :
           r1 # r2 /\ a[r1] # None /\ a[r2] # None =>
              ~conflict(r1, a[r1], r2, a[r2])}

InitSearch ==
    /\ \E k \in 1 .. MaxSearchN :
          /\ n = k
          /\ assignment \in PartialPlacements(k)
          /\ domains = [r \in Rows(k) |-> IF assignment[r] = None
                                          THEN Cols(k)
                                          ELSE {assignment[r]}]
          /\ neighbors = InitialNeighbors(k)
    /\ queue = <<>>
    /\ ac3_caller = "harness"
    /\ ac3_entry = domains
    /\ ac3_result = FALSE
    /\ stack = <<>>
    /\ bt_result = FALSE
    /\ result = <<>>
    /\ pc = "bt_call"
    /\ trace = <<>>
    /\ trials = <<>>
    /\ runs = MaxRuns
    /\ prev = [trace |-> <<>>, result |-> <<>>]
    /\ calls = NoCalls
    /\ args = <<>>
    /\ ret = <<>>

SpecSearch == (Init \/ InitSearch) /\ [][Next]_vars

(***************************************************************************)
(* main.py: the command line.  args.argv is sys.argv[1:]; an argument is a *)
(* decimal numeral, an optional minus sign and digits.  ret[1] is what     *)
(* main has done when it ends: the line it printed, the status it exited   *)
(* with, the argument of the call of solve_nqueens_csp it made (line 19).  *)
(* The run of that call is the one Spec describes; it is not unfolded      *)
(* here, where only the making of the call is at stake.                    *)
(***************************************************************************)
\* the value of a list of decimal digits
RECURSIVE DigitsValue(_)
DigitsValue(digits) ==
    IF digits = <<>> THEN 0
    ELSE 10 * DigitsValue(SubSeq(digits, 1, Len(digits) - 1))
            + digits[Len(digits)]

\* main.py 14: int(sys.argv[1])
int(numeral) ==
    IF numeral.sign = "-" THEN 0 - DigitsValue(numeral.digits)
    ELSE DigitsValue(numeral.digits)

Numerals ==
    [sign : {"", "-"},
     digits : UNION {[1 .. k -> 0 .. 9] : k \in 1 .. MaxDigits}]

\* main.py 9: main is started with no argument or with one numeral
InitMain ==
    /\ NoSolver
    /\ n = 0
    /\ domains = <<>>
    /\ neighbors = <<>>
    /\ assignment = <<>>
    /\ ac3_entry = <<>>
    /\ pc = "main_call"
    /\ args \in [argv : {<<>>} \cup {<<a>> : a \in Numerals}]
    /\ ret = <<>>

\* main.py 10-12: no argument
Main_Usage ==
    /\ pc = "main_call"
    /\ Len(args.argv) + 1 < 2
    /\ ret' = <<[printed |-> "Usage: python main.py <n>",
                 exit |-> <<1>>,
                 solve_nqueens_csp |-> <<>>]>>
    /\ pc' = "main_exit"
    /\ UNCHANGED <<n, domains, neighbors, assignment, queue, ac3_caller,
                   ac3_entry, ac3_result, stack, bt_result, result, trace,
                   trials, runs, prev, calls, args>>

\* main.py 14-17: the argument is below 10
Main_RangeMessage ==
    /\ pc = "main_call"
    /\ ~(Len(args.argv) + 1 < 2)
    /\ int(args.argv[1]) < 10
    /\ ret' = <<[printed |-> "The value must be between 10<=n<=1000",
                 exit |-> <<0>>,
                 solve_nqueens_csp |-> <<>>]>>
    /\ pc' = "main_exit"
    /\ UNCHANGED <<n, domains, neighbors, assignment, queue, ac3_caller,
                   ac3_entry, ac3_result, stack, bt_result, result, trace,
                   trials, runs, prev, calls, args>>

\* main.py 14-15, 19: any other argument: solve_nqueens_csp(n) is called
Main_Solve ==
    /\ pc = "main_call"
    /\ ~(Len(args.argv) + 1 < 2)
    /\ ~(int(args.argv[1]) < 10)
    /\ ret' = <<[printed |-> "",
                 exit |-> <<>>,
                 solve_nqueens_csp |-> <<int(args.argv[1])>>]>>
    /\ pc' = "main_solve"
    /\ UNCHANGED <<n, domains, neighbors, assignment, queue, ac3_caller,
                   ac3_entry, ac3_result, stack, bt_result, result, trace,
                   trials, runs, prev, calls, args>>

NextMain ==
    \/ Main_Usage
    \/ Main_RangeMessage
    \/ Main_Solve

SpecMain == InitMain /\ [][NextMain]_vars

(***************************************************************************)
(* Properties                                                              *)
(***************************************************************************)
Done == pc = "done"
Returned == result[1]

\* C1 (soundness): whenever solve_nqueens_csp returns an assignment, every
\* row 0..n-1 is mapped to a column in 0..n-1 and no two distinct rows
\* conflict.
C1_Soundness ==
    Done /\ result # <<>> =>
        /\ DOMAIN Returned = Rows(n)
        /\ \A r \in Rows(n) : Returned[r] \in Cols(n)
        /\ \A r1, r2 \in Rows(n) :
              r1 # r2 => ~conflict(r1, Returned[r1], r2, Returned[r2])

C1_Witness == Done /\ result # <<>> /\ n >= 4

\* a conflict-free placement of k queens, one per row
IsPlacement(s, k) ==
    \A r1, r2 \in Rows(k) : r1 # r2 => ~conflict(r1, s[r1], r2, s[r2])

HasPlacement(k) == \E s \in [Rows(k) -> Cols(k)] : IsPlacement(s, k)

C3_NoSolutionSmall == Done /\ n \in {2, 3} => result = <<>>

C3_Witness == Done /\ n = 3 /\ result = <<>>

Canonical4a == [r \in Rows(4) |-> <<1, 3, 0, 2>>[r + 1]]
Canonical4b == [r \in Rows(4) |-> <<2, 0, 3, 1>>[r + 1]]

\* C4: solve_nqueens_csp(4) returns one of the two canonical assignments
\* {0:1, 1:3, 2:0, 3:2} and {0:2, 1:0, 2:3, 3:1}.
C4_Canonical4 ==
    Done /\ n = 4 => result \in {<<Canonical4a>>, <<Canonical4b>>}

C4_Witness == Done /\ n = 4 /\ result = <<Canonical4a>>

IsPrefix(s, t) == Len(s) <= Len(t) /\ SubSeq(t, 1, Len(s)) = s

C7_RestorationExact ==
    pc = "bt_loop" /\ Top.failed # "" => domains = Top.pre_domains

C7_Witness ==
    /\ pc = "bt_loop"
    /\ Top.failed = "recursion"
    /\ \E r \in Rows(n) \ {Top.row} : ac3_entry[r] # Top.pre_domains[r]

\* C8 (no leaked mutation): when a call of backtracking_search returns False,
\* the domains and the assignment are those of the call's entry.
C8_NoLeakOnFailure ==
    pc = "bt_loop" /\ Top.i > Len(Top.candidate_cols) =>
        /\ domains = Top.entry_domains
        /\ assignment = Top.entry_assignment

C8_Witness ==
    /\ pc = "bt_loop"
    /\ Top.i > Len(Top.candidate_cols)
    /\ Top.failed # ""
    /\ Len(stack) >= 2

ArcConsistent(doms, nbs) ==
    \A Xi \in DOMAIN doms : \A Xj \in Range(nbs[Xi]) : \A v \in doms[Xi] :
        \E w \in doms[Xj] : ~conflict(Xi, v, Xj, w)

\* C9 (AC3 postcondition): whenever AC3 returns True, every value of every
\* domain has a compatible value in the domain of every neighbor.
C9_AC3ArcConsistent ==
    pc = "ac3_ret" /\ ac3_result => ArcConsistent(domains, neighbors)

C9_Witness ==
    /\ pc = "ac3_ret"
    /\ ac3_result
    /\ n >= 4
    /\ \A r \in Rows(n) : domains[r] # {}
    /\ \E r1, r2 \in Rows(n) : /\ r1 # r2
                               /\ domains[r1] # ac3_entry[r1]
                               /\ domains[r2] # ac3_entry[r2]

NonEmptyInput == n >= 2 /\ \A r \in Rows(n) : ac3_entry[r] # {}

\* C10 (AC3 verdict): for n >= 2 and non-empty input domains, AC3 returns
\* False if and only if a domain has become empty; no domain is empty while
\* it runs, and when it returns True the queue is exhausted and every domain
\* is non-empty.
C10_AC3Verdict ==
    NonEmptyInput =>
        /\ pc = "ac3_loop" => \A r \in Rows(n) : domains[r] # {}
        /\ pc = "ac3_ret" =>
              /\ ~ac3_result <=> \E r \in Rows(n) : domains[r] = {}
              /\ ac3_result => queue = <<>>

C10_Witness ==
    /\ NonEmptyInput
    /\ pc = "ac3_ret"
    /\ ~ac3_result
    /\ ac3_caller = "harness"
    /\ Cardinality({r \in Rows(n) : domains[r] = {}}) = 1
    /\ queue # <<>>

\* C11 (AC3 idempotence): AC3 called on arc-consistent domains, in particular
\* on the domains a successful AC3 run has left, returns True and changes no
\* domain.
C11_AC3Idempotent ==
    pc \in {"ac3_loop", "ac3_ret"} /\ ArcConsistent(ac3_entry, neighbors) =>
        /\ domains = ac3_entry
        /\ pc = "ac3_ret" => ac3_result

C11_Witness ==
    /\ pc = "ac3_ret"
    /\ ac3_caller = "harness"
    /\ runs >= 2
    /\ ac3_result
    /\ n >= 4
    /\ domains = ac3_entry
    /\ domains # InitialDomains(n)
    /\ \A r \in Rows(n) : domains[r] # {}

\* C12 (AC3 confluence): whatever the order in which the queued arcs are
\* dequeued, AC3 gives the verdict of the run in FIFO order and, when it
\* succeeds, leaves the same domains.
C12_AC3Confluent ==
    pc = "ac3_ret" =>
        LET fifo == AC3(ac3_entry, neighbors, n)
        IN  /\ ac3_result = fifo.result
            /\ ac3_result => domains = fifo.domains

\* the run in FIFO order is one of the runs: the actions agree with AC3
AC3_ActionsAgree ==
    pc = "ac3_ret" =>
        /\ ac3_result = AC3(ac3_entry, neighbors, n).result
        /\ domains = AC3(ac3_entry, neighbors, n).domains

C12_Witness ==
    /\ pc = "ac3_ret"
    /\ ac3_result
    /\ n = 3
    /\ \A r \in Rows(n) : domains[r] # {} /\ domains[r] # ac3_entry[r]

\* C13 (conflict): for rows r1 # r2, conflict(r1, c1, r2, c2) is True exactly
\* when the columns are equal or the squares share a diagonal (row distance
\* equal to column distance); so it is True on equal columns, True on
\* (0,0),(1,1) and False on (0,0),(2,1).
C13_ConflictDefinition ==
    pc = "conflict_ret" =>
        LET r1 == args.r1
            c1 == args.c1
            r2 == args.r2
            c2 == args.c2
        IN  /\ r1 # r2 =>
                (ret[1] <=> \/ c1 = c2
                            \/ r1 - r2 = c1 - c2
                            \/ r1 - r2 = c2 - c1)
            /\ r1 # r2 /\ c1 = c2 => ret[1]
            /\ <<r1, c1, r2, c2>> = <<0, 0, 1, 1>> => ret[1]
            /\ <<r1, c1, r2, c2>> = <<0, 0, 2, 1>> => ~ret[1]

C13_Witness ==
    /\ pc = "conflict_ret"
    /\ <<args.r1, args.c1, args.r2, args.c2>> = <<0, 0, 2, 1>>
    /\ ret = <<FALSE>>

\* C14 (symmetry of conflict): conflict(r1, c1, r2, c2) equals
\* conflict(r2, c2, r1, c1) for all arguments.
C14_ConflictSymmetric ==
    pc = "conflict_ret" =>
        ret[1] = conflict(args.r2, args.c2, args.r1, args.c1)

C14_Witness ==
    /\ pc = "conflict_ret"
    /\ args.r1 < args.r2
    /\ args.c1 < args.c2
    /\ ret = <<TRUE>>

\* C15 (orchestration gating): solve_nqueens_csp calls AC3 exactly once, on
\* the full initial domains and before any search; the first call of
\* backtracking_search happens only after that AC3 returned True, with every
\* row unassigned; when that AC3 returned False the result is None and
\* backtracking_search was never entered.
C15_Gating ==
    /\ calls.ac3.solve <= 1
    /\ ac3_caller = "solve" /\ pc \in {"ac3_loop", "ac3_ret"} =>
          /\ calls.ac3.solve = 1
          /\ ac3_entry = [r \in 0 .. (n - 1) |-> 0 .. (n - 1)]
          /\ calls.bt = 0
          /\ calls.ac3.search = 0
    /\ pc = "bt_call" /\ calls.bt = 0 =>
          /\ calls.ac3.solve = 1
          /\ calls.ac3.search = 0
          /\ ac3_caller = "solve"
          /\ ac3_result
          /\ \A r \in 0 .. (n - 1) : assignment[r] = None
    /\ calls.bt = 1 /\ pc = "bt_loop" /\ Len(stack) = 1 /\ Top.i = 1 =>
          /\ ac3_caller = "solve"
          /\ ac3_result
          /\ \A r \in 0 .. (n - 1) : Top.entry_assignment[r] = None
    /\ Done => calls.ac3.solve = 1
    /\ Done /\ ac3_caller = "solve" /\ ~ac3_result =>
          /\ result = <<>>
          /\ calls.bt = 0
          /\ calls.ac3.search = 0
          /\ trace = <<>>
    /\ Done /\ calls.bt = 0 => ac3_caller = "solve" /\ ~ac3_result

C15_Witness ==
    /\ pc = "bt_loop"
    /\ n >= 4
    /\ calls = [ac3 |-> [solve |-> 1, search |-> 0, harness |-> 0], bt |-> 1]
    /\ ac3_result

\* C16 (no fatal error): a run of solve_nqueens_csp never reaches a state
\* where the next statement raises: every row looked up (in domains,
\* neighbors, assignment, saved_domains) is a key, every value revise removes
\* is in the set it is removed from, the list select_unassigned_row indexes
\* is not empty, the frame a statement of backtracking_search runs in exists;
\* what the run returns is None or an assignment of every row.
C16_NoFatalError ==
    LET rows == 0 .. (n - 1)
    IN  /\ DOMAIN domains = rows
        /\ DOMAIN neighbors = rows
        /\ DOMAIN assignment = rows
        /\ \A r \in rows : \A i \in 1 .. Len(neighbors[r]) :
              neighbors[r][i] \in rows
        /\ \A i \in 1 .. Len(queue) :
              queue[i][1] \in rows /\ queue[i][2] \in rows
        /\ pc = "ac3_loop" /\ queue # <<>> =>
              to_remove(domains, Head(queue)[1], Head(queue)[2])
                  \subseteq domains[Head(queue)[1]]
        /\ \A i \in 1 .. Len(stack) :
              /\ stack[i].unassigned_rows # <<>>
              /\ stack[i].row \in rows
        /\ pc = "bt_undo" => DOMAIN Top.saved_domains = rows
        /\ pc \in {"ac3_call", "ac3_loop", "ac3_ret", "bt_call", "bt_loop",
                  "bt_undo", "bt_ret", "done"}
        /\ ac3_caller \in {"solve", "search"}
        /\ pc \in {"bt_loop", "bt_undo"} => stack # <<>>
        /\ pc = "ac3_ret" /\ ac3_caller = "search" => stack # <<>>
        /\ Done =>
              \/ result = <<>>
              \/ /\ Len(result) = 1
                 /\ DOMAIN result[1] = rows
                 /\ \A r \in rows : result[1][r] \in rows

C16_Witness ==
    /\ Done
    /\ n = 6
    /\ result # <<>>
    /\ calls.ac3.search > n

\* C17 (MRV): the row select_unassigned_row returns is one of the unassigned
\* rows, no unassigned row has a smaller domain, and no unassigned row with a
\* domain of the same size has more neighbors; so also for the row every
\* frame of backtracking_search works on.
IsMRV(row, U, doms, nbs) ==
    /\ row \in U
    /\ \A u \in U :
          /\ Cardinality(doms[row]) <= Cardinality(doms[u])
          /\ Cardinality(doms[row]) = Cardinality(doms[u]) =>
                Len(nbs[u]) <= Len(nbs[row])

C17_MRV ==
    /\ pc = "select_ret" =>
          IsMRV(ret[1], Range(args.passed.unassigned_rows),
                args.passed.domains, args.passed.neighbors)
    /\ \A i \in 1 .. Len(stack) :
          IsMRV(stack[i].row,
                {r \in 0 .. (n - 1) : stack[i].entry_assignment[r] = None},
                stack[i].entry_domains, neighbors)

C17_Witness ==
    /\ pc = "select_ret"
    /\ \E u \in Range(args.passed.unassigned_rows) :
          /\ u < ret[1]
          /\ Cardinality(domains[u]) = Cardinality(domains[ret[1]])
          /\ Len(neighbors[u]) < Len(neighbors[ret[1]])
    /\ \E u \in Range(args.passed.unassigned_rows) :
          Cardinality(domains[u]) > Cardinality(domains[ret[1]])

\* C18 (LCV): the list order_domain_values returns holds each value of
\* domains[row] once, in ascending order of cost, where cost(v) is the number
\* of pairs (nb, w), nb a neighbor of row and w in domains[nb], with
\* conflict(row, v, nb, w); values of equal cost are in the order in which the
\* domain is iterated (ascending, for the small ints of a board).
LCVCost(row, v, doms, nbs) ==
    Cardinality({p \in Range(nbs[row]) \X (0 .. (n - 1)) :
                    p[2] \in doms[p[1]] /\ conflict(row, v, p[1], p[2])})

IsLCV(vals, row, doms, nbs) ==
    /\ Len(vals) = Cardinality(doms[row])
    /\ Range(vals) = doms[row]
    /\ \A i, j \in 1 .. Len(vals) :
          i < j =>
             /\ LCVCost(row, vals[i], doms, nbs) <= LCVCost(row, vals[j], doms, nbs)
             /\ LCVCost(row, vals[i], doms, nbs) = LCVCost(row, vals[j], doms, nbs)
                   => vals[i] < vals[j]

C18_LCV ==
    /\ pc = "order_ret" =>
          IsLCV(ret[1], args.passed.row, args.passed.domains,
                args.passed.neighbors)
    /\ \A i \in 1 .. Len(stack) :
          IsLCV(stack[i].candidate_cols, stack[i].row, stack[i].entry_domains,
                neighbors)

C18_Witness ==
    /\ pc = "order_ret"
    /\ Len(ret[1]) = 3
    /\ ret[1][1] > ret[1][2]
    /\ LCVCost(args.row, ret[1][2], domains, neighbors)
          = LCVCost(args.row, ret[1][3], domains, neighbors)

\* C19 (heuristic purity): after a call of select_unassigned_row or of
\* order_domain_values the domains, the neighbors, the assignment and every
\* argument, the list of unassigned rows included, are as they were passed.
C19_HeuristicsPure ==
    /\ pc = "select_ret" =>
          /\ domains = args.passed.domains
          /\ neighbors = args.passed.neighbors
          /\ assignment = [r \in 0 .. (n - 1) |-> None]
          /\ args.unassigned_rows = args.passed.unassigned_rows
    /\ pc = "order_ret" =>
          /\ domains = args.passed.domains
          /\ neighbors = args.passed.neighbors
          /\ assignment = [r \in 0 .. (n - 1) |-> None]
          /\ args.row = args.passed.row

\* C20 (first solution): from the moment a call of backtracking_search has
\* returned True, each step returns True from the enclosing frame (or returns
\* the assignment from solve_nqueens_csp once no frame is left): no candidate
\* is tried, AC3 is not called, domains and assignment stay as they are.
C20_FirstSolution ==
    [][pc = "bt_ret" /\ bt_result =>
          /\ bt_result'
          /\ domains' = domains
          /\ assignment' = assignment
          /\ \A r \in 0 .. (n - 1) : assignment[r] # None
          /\ trace' = trace
          /\ calls' = calls
          /\ IF stack = <<>>
             THEN pc' = "done" /\ result' = <<assignment>>
             ELSE pc' = "bt_ret" /\ Len(stack') = Len(stack) - 1]_vars

C20_Witness ==
    /\ pc = "bt_ret"
    /\ bt_result
    /\ n = 6
    /\ Len(stack) = 1

\* C21 (why n = 2 and n = 3 have no solution), as claimed: the result None of
\* solve_nqueens_csp(2) and solve_nqueens_csp(3) comes from the search: the
\* initial AC3 returned True, backtracking_search was entered and returned
\* False.
C21_SearchExhausted ==
    Done /\ n \in {2, 3} /\ result = <<>> =>
        /\ calls.bt >= 1
        /\ ~bt_result
        /\ calls.ac3.search >= 1 \/ ac3_result

\* C21, amended: for n = 2 and n = 3 the result is None because the initial
\* AC3 run wipes out a domain and returns False; backtracking_search is never
\* entered.
C21_InitialAC3Fails ==
    Done /\ n \in {2, 3} =>
        /\ result = <<>>
        /\ calls = [ac3 |-> [solve |-> 1, search |-> 0, harness |-> 0],
                    bt |-> 0]
        /\ ac3_caller = "solve"
        /\ ~ac3_result
        /\ \E r \in 0 .. (n - 1) : domains[r] = {}
        /\ trace = <<>>

C21_Witness ==
    /\ Done
    /\ n = 3
    /\ result = <<>>
    /\ calls.bt = 0
    /\ ~ac3_result

\* C22 (the partial assignment is conflict-free): in every state no two
\* assigned rows conflict; and the step of the loop on a candidate column
\* that conflicts with an assigned row goes to the next candidate leaving the
\* assignment, the domains and the saved domains as they are, without a call
\* of AC3.
NoAssignedConflict ==
    \A r1, r2 \in 0 .. (n - 1) :
       r1 # r2 /\ assignment[r1] # None /\ assignment[r2] # None =>
          ~conflict(r1, assignment[r1], r2, assignment[r2])

C22_ConflictFree ==
    /\ []NoAssignedConflict
    /\ [][/\ pc = "bt_loop"
          /\ Top.i <= Len(Top.candidate_cols)
          /\ \E r2 \in 0 .. (n - 1) :
                /\ assignment[r2] # None
                /\ conflict(Top.row, Top.candidate_cols[Top.i],
                            r2, assignment[r2])
          => /\ assignment' = assignment
             /\ domains' = domains
             /\ calls' = calls
             /\ queue' = queue
             /\ pc' = "bt_loop"
             /\ stack' = [stack EXCEPT ![Len(stack)].i = @ + 1]]_vars

C22_Witness ==
    /\ pc = "bt_loop"
    /\ Top.i = 2
    /\ Top.failed = ""
    /\ conflicts_with_assigned(Top.row, Top.candidate_cols[1], assignment, n)
    /\ assignment[Top.row] = None
    /\ NoAssignedConflict

\* C23 (the assignment tracks the recursion): a call of backtracking_search
\* at depth d (d enclosing frames, the top call at depth 0) starts with
\* exactly d rows assigned, and d is at most n; the assignment changes only
\* when a frame commits a column to its row, which was unassigned, and when a
\* trial has failed, which clears that row, and every failed trial clears it.
NumAssigned(asg) == Cardinality({r \in 0 .. (n - 1) : asg[r] # None})

C23_AssignmentTracksRecursion ==
    /\ [](/\ Len(stack) <= n
          /\ pc = "bt_call" => NumAssigned(assignment) = Len(stack)
          /\ \A d \in 1 .. Len(stack) :
                NumAssigned(stack[d].entry_assignment) = d - 1
          /\ pc = "bt_loop" => NumAssigned(assignment) = Len(stack) - 1
          /\ pc = "bt_undo" => NumAssigned(assignment) = Len(stack))
    /\ [][assignment' # assignment /\ pc # "done" =>
             \/ /\ pc = "bt_loop"
                /\ assignment[Top.row] = None
                /\ assignment' = [assignment EXCEPT
                                    ![Top.row] = Top.candidate_cols[Top.i]]
                /\ domains' = [domains EXCEPT
                                 ![Top.row] = {Top.candidate_cols[Top.i]}]
             \/ /\ pc = "bt_undo"
                /\ Top.failed \in {"ac3", "recursion"}
                /\ assignment[Top.row] # None
                /\ assignment' = [assignment EXCEPT ![Top.row] = None]]_vars
    /\ [][pc = "bt_undo" => assignment'[Top.row] = None]_vars

C23_Witness ==
    /\ pc = "bt_call"
    /\ n = 6
    /\ Len(stack) = 3
    /\ NumAssigned(assignment) = 3
    /\ \E d \in 1 .. Len(stack) : stack[d].i > 1

\* C24 (propagation after every decision): the step that commits a column
\* to a row is the call of AC3 by the search; that run starts from the queue
\* of all arcs, on the domains with the row collapsed; a call of
\* backtracking_search begins only from the return of an AC3 run that
\* returned True, and a run that returned False leads to the undo.
C24_PropagateAfterDecision ==
    /\ [][assignment' # assignment /\ pc = "bt_loop" =>
             /\ pc' = "ac3_call"
             /\ ac3_caller' = "search"
             /\ domains' = [domains EXCEPT ![Top.row] = {assignment'[Top.row]}]]_vars
    /\ [][pc = "ac3_call" =>
             /\ pc' = "ac3_loop"
             /\ Len(queue') = n * (n - 1)
             /\ ac3_entry' = domains
             /\ calls'.ac3[ac3_caller] = calls.ac3[ac3_caller] + 1]_vars
    /\ [][pc' = "bt_call" /\ pc # "bt_call" =>
             /\ pc = "ac3_ret"
             /\ ac3_result
             /\ queue = <<>>]_vars
    /\ [][pc = "ac3_ret" /\ ac3_caller = "search" /\ ~ac3_result =>
             /\ pc' = "bt_undo"
             /\ calls' = calls]_vars
    /\ [](pc = "bt_call" /\ stack # <<>> =>
             /\ ac3_caller = "search"
             /\ ac3_result
             /\ ac3_entry = [Top.pre_domains EXCEPT
                               ![Top.row] = {assignment[Top.row]}])

C24_Witness ==
    /\ pc = "bt_call"
    /\ n >= 4
    /\ Len(stack) = 2
    /\ ac3_result
    /\ domains # ac3_entry

\* C25 (requeue rule): a revision of the arc (Xi, Xj) at the head of the
\* queue that removes a value of domains[Xi] and leaves it non-empty appends
\* to the rest of the queue the arcs (Xk, Xi), Xk a neighbor of Xi other than
\* Xj, each once and no other arc; a revision that removes nothing appends
\* nothing.
C25_RequeueRule ==
    [][pc = "ac3_loop" /\ queue # <<>> =>
          LET Xi == Head(queue)[1]
              Xj == Head(queue)[2]
              rest == Len(queue) - 1
              others == {Xk \in Range(neighbors[Xi]) : Xk # Xj}
          IN  /\ SubSeq(queue', 1, rest) = Tail(queue)
              /\ domains'[Xi] = domains[Xi] => queue' = Tail(queue)
              /\ domains'[Xi] # domains[Xi] /\ domains'[Xi] # {} =>
                    /\ Len(queue') = rest + Cardinality(others)
                    /\ {queue'[i] : i \in (rest + 1) .. Len(queue')}
                          = {<<Xk, Xi>> : Xk \in others}]_vars

C25_Witness ==
    /\ pc = "ac3_loop"
    /\ n = 4
    /\ Len(queue) >= 2
    /\ LET Xi == queue[Len(queue)][2]
       IN  /\ queue[Len(queue) - 1][2] = Xi
           /\ domains[Xi] # ac3_entry[Xi]
           /\ domains[Xi] # {}

\* C26 (AC3 halts at a wipe-out): the revision that removes the last value
\* of domains[Xi] is the last step of the run: AC3 returns False at once,
\* the other domains are as they were, the arcs still queued stay queued and
\* the step after the return neither dequeues an arc nor changes a domain.
C26_HaltAtWipeout ==
    /\ [][pc = "ac3_loop" /\ queue # <<>> =>
             LET Xi == Head(queue)[1]
             IN  domains[Xi] # {} /\ domains'[Xi] = {} =>
                    /\ pc' = "ac3_ret"
                    /\ ~ac3_result'
                    /\ queue' = Tail(queue)
                    /\ \A r \in 0 .. (n - 1) :
                          r # Xi => domains'[r] = domains[r]]_vars
    /\ [][pc = "ac3_ret" /\ ~ac3_result =>
             /\ queue' = queue
             /\ domains' = domains
             /\ pc' \in {"ac3_ret", "bt_undo", "done"}]_vars
    /\ [](pc = "ac3_ret" /\ ~ac3_result =>
             \E r \in 0 .. (n - 1) : domains[r] = {} /\ ac3_entry[r] # {})

C26_Witness ==
    /\ pc = "ac3_ret"
    /\ ~ac3_result
    /\ queue # <<>>
    /\ \A r \in 0 .. (n - 1) : ac3_entry[r] # {}
    /\ Cardinality({r \in 0 .. (n - 1) : domains[r] = {}}) = 1

\* C27 (seeding and order of the queue): an AC3 run starts with a queue that
\* holds every ordered pair of distinct rows once, n * (n - 1) arcs; the arc
\* revised at each step is the one at the head of the queue (only domains[Xi]
\* changes, losing the values without support in domains[Xj]), and the arcs
\* behind it keep their order, new arcs coming after them.
C27_SeedingAndFIFO ==
    /\ [][pc = "ac3_call" =>
             /\ Len(queue') = n * (n - 1)
             /\ {queue'[i] : i \in 1 .. Len(queue')}
                   = {a \in (0 .. (n - 1)) \X (0 .. (n - 1)) : a[1] # a[2]}]_vars
    /\ [][pc = "ac3_loop" /\ queue # <<>> =>
             LET Xi == Head(queue)[1]
                 Xj == Head(queue)[2]
             IN  /\ domains' =
                       [domains EXCEPT ![Xi] =
                           {vi \in domains[Xi] :
                               \E vj \in domains[Xj] : ~conflict(Xi, vi, Xj, vj)}]
                 /\ Len(queue') >= Len(queue) - 1
                 /\ SubSeq(queue', 1, Len(queue) - 1) = Tail(queue)]_vars

C27_Witness ==
    /\ pc = "ac3_loop"
    /\ ac3_caller = "search"
    /\ n = 4
    /\ Len(queue) = 12
    /\ domains = ac3_entry

\* C28 (the neighbor relation is fixed): in every state of a run of
\* solve_nqueens_csp the neighbors of each row r are all the rows other than
\* r, each listed once, and no step changes neighbors.
C28_NeighborsFixed ==
    /\ [](/\ DOMAIN neighbors = 0 .. (n - 1)
          /\ \A r \in 0 .. (n - 1) :
                /\ Len(neighbors[r]) = n - 1
                /\ {neighbors[r][i] : i \in 1 .. Len(neighbors[r])}
                      = (0 .. (n - 1)) \ {r})
    /\ [][neighbors' = neighbors]_vars

C28_Witness ==
    /\ pc = "bt_undo"
    /\ n = 6
    /\ Len(stack) >= 2
    /\ \A r \in 0 .. 5 : Len(neighbors[r]) = 5 /\ r \notin Range(neighbors[r])

\* C29 (AC3 only shrinks domains): during and after an AC3 run, successful
\* or not, each row's domain is a subset of its domain when the run was
\* called and of 0..n-1; no step of the run changes the assignment, and the
\* verdict and the domains left depend on the domains passed alone.
C29_AC3OnlyShrinks ==
    /\ [](pc \in {"ac3_loop", "ac3_ret"} =>
             \A r \in 0 .. (n - 1) :
                /\ domains[r] \subseteq ac3_entry[r]
                /\ domains[r] \subseteq 0 .. (n - 1))
    /\ [][(pc = "ac3_call" \/ pc = "ac3_loop") =>
             assignment' = assignment]_vars
    /\ [](pc = "ac3_ret" =>
             LET out == AC3(ac3_entry, InitialNeighbors(n), n)
             IN  ac3_result = out.result /\ domains = out.domains)

C29_Witness ==
    /\ pc = "ac3_ret"
    /\ ac3_caller = "search"
    /\ \E r \in 0 .. (n - 1) : assignment[r] # None
    /\ \E r \in 0 .. (n - 1) : domains[r] # ac3_entry[r] /\ domains[r] # {}
    /\ \A r \in 0 .. (n - 1) : domains[r] \subseteq ac3_entry[r]

\* the conflict-free placements of queens on rows 0..r-1 of a board of k
\* columns, as lists of columns (the column of row i is the element i + 1)
RECURSIVE PlaceRows(_, _)
PlaceRows(k, r) ==
    IF r = 0 THEN {<<>>}
    ELSE {Append(pc2[1], pc2[2]) :
             pc2 \in {x \in PlaceRows(k, r - 1) \X Cols(k) :
                        \A i \in 1 .. (r - 1) :
                           ~conflict(i - 1, x[1][i], r - 1, x[2])}}

\* C30 (AC3 preserves solutions): a complete conflict-free placement whose
\* columns are all in the domains when AC3 is called has all its columns in
\* the domains at every step of the run and after it, and the run returns
\* True.
C30_AC3PreservesSolutions ==
    pc \in {"ac3_loop", "ac3_ret"} =>
        \A s \in PlaceRows(n, n) :
           (\A r \in 0 .. (n - 1) : s[r + 1] \in ac3_entry[r]) =>
              /\ \A r \in 0 .. (n - 1) : s[r + 1] \in domains[r]
              /\ pc = "ac3_ret" => ac3_result

C30_Witness ==
    /\ pc = "ac3_ret"
    /\ ac3_caller = "harness"
    /\ n = 4
    /\ ac3_result
    /\ domains # ac3_entry
    /\ \E s \in PlaceRows(n, n) : \A r \in 0 .. (n - 1) : s[r + 1] \in domains[r]

\* C31 (frame-entry invariant): when a call of backtracking_search begins,
\* and at the head of every iteration of its loop over the candidate
\* columns, no domain is empty, the domains are arc-consistent, and the
\* domain of each assigned row is the set of its assigned column alone.
C31_FrameEntry ==
    pc \in {"bt_call", "bt_loop"} =>
        /\ \A r \in 0 .. (n - 1) : domains[r] # {}
        /\ \A r1, r2 \in 0 .. (n - 1) :
              r1 # r2 =>
                 \A v1 \in domains[r1] :
                    \E v2 \in domains[r2] : ~conflict(r1, v1, r2, v2)
        /\ \A r \in 0 .. (n - 1) :
              assignment[r] # None => domains[r] = {assignment[r]}

C31_Witness ==
    /\ pc = "bt_loop"
    /\ n = 6
    /\ Top.i > 1
    /\ Len(stack) >= 2
    /\ \E r \in 0 .. (n - 1) : Cardinality(domains[r]) >= 2

\* C32 (the conflict test before propagation never rejects): in a run of
\* solve_nqueens_csp no candidate column of a frame conflicts with an
\* assigned row when the loop reaches it, so line 31 of backtracking.py is
\* true for every candidate and every candidate is committed.
C32_QuickCheckRedundant ==
    /\ [](pc = "bt_loop" =>
             \A i \in Top.i .. Len(Top.candidate_cols) :
                \A r2 \in 0 .. (n - 1) :
                   assignment[r2] # None =>
                      ~conflict(Top.row, Top.candidate_cols[i], r2, assignment[r2]))
    /\ [][pc = "bt_loop" /\ Top.i <= Len(Top.candidate_cols) =>
             /\ assignment'[Top.row] = Top.candidate_cols[Top.i]
             /\ pc' = "ac3_call"]_vars

C32_Witness ==
    /\ pc = "bt_loop"
    /\ n = 6
    /\ Len(stack) >= 3
    /\ Top.i <= Len(Top.candidate_cols)
    /\ ~conflicts_with_assigned(Top.row, Top.candidate_cols[Top.i], assignment, n)

\* C33 (final domains on success): when solve_nqueens_csp returns an
\* assignment, the domain of every row is the set of the column the
\* assignment gives it, and nothing else.
C33_FinalDomains ==
    Done /\ result # <<>> =>
        \A r \in 0 .. (n - 1) : domains[r] = {result[1][r]}

C33_Witness ==
    /\ Done
    /\ n = 5
    /\ result # <<>>
    /\ \A r \in 0 .. (n - 1) : Cardinality(domains[r]) = 1
    /\ calls.bt = n + 1

\* the number of values in all the domains
RECURSIVE SumSizesUpTo(_, _)
SumSizesUpTo(doms, k) ==
    IF k = 0 THEN 0 ELSE Cardinality(doms[k - 1]) + SumSizesUpTo(doms, k - 1)

SumSizes(doms) == SumSizesUpTo(doms, n)

\* C34 (AC3 terminates): every AC3 run that is called returns; a revision
\* either removes a value or shortens the queue by the arc it took, arcs being
\* appended only when a value was removed; and the values removed by a run
\* are at most the values the domains held when it was called.
C34_AC3Terminates ==
    /\ (pc = "ac3_call") ~> (pc = "ac3_ret")
    /\ [][pc = "ac3_loop" /\ queue # <<>> =>
             \/ SumSizes(domains') < SumSizes(domains)
             \/ domains' = domains /\ queue' = Tail(queue)]_vars
    /\ [](pc = "ac3_loop" \/ pc = "ac3_ret" =>
             /\ SumSizes(domains) <= SumSizes(ac3_entry)
             /\ SumSizes(ac3_entry) - SumSizes(domains) <= SumSizes(ac3_entry))

C34_Witness ==
    /\ pc = "ac3_ret"
    /\ ac3_caller = "harness"
    /\ n = 4
    /\ ac3_result
    /\ SumSizes(domains) < SumSizes(ac3_entry)
    /\ queue = <<>>

\* C35 (the search terminates): every call of solve_nqueens_csp returns
\* (a run that has not returned reaches "done"); a frame keeps its row and
\* its candidate columns, these columns are pairwise distinct, and control
\* reaches the head of the loop only for a new frame at its first candidate
\* or for the same frame at its next candidate, so a frame tries each
\* candidate at most once; and no (row, column) trial is made twice under
\* the same partial assignment.
C35_SearchTerminates ==
    /\ (pc # "done") ~> (pc = "done")
    /\ [](\A d \in 1 .. Len(stack) :
            \A a, b \in 1 .. Len(stack[d].candidate_cols) :
                a # b => stack[d].candidate_cols[a] # stack[d].candidate_cols[b])
    /\ [][/\ \A d \in 1 .. Len(stack) :
               d <= Len(stack') =>
                   /\ stack'[d].row = stack[d].row
                   /\ stack'[d].candidate_cols = stack[d].candidate_cols
                   /\ stack'[d].i >= stack[d].i
                   /\ d < Len(stack) => stack'[d] = stack[d]
          /\ trace' # trace /\ trace' # <<>> =>
                   /\ pc = "bt_loop"
                   /\ trace' = Append(trace,
                                      <<Top.row, Top.candidate_cols[Top.i]>>)
                   /\ trials' = Append(trials, assignment)
                   /\ assignment = Top.entry_assignment
          /\ pc' = "bt_loop" =>
                   \/ /\ Len(stack') = Len(stack) + 1
                      /\ stack'[Len(stack')].i = 1
                   \/ /\ Len(stack') = Len(stack)
                      /\ stack'[Len(stack')].i = Top.i + 1]_vars
    /\ [](\A a, b \in 1 .. Len(trace) :
            a # b => <<trials[a], trace[a]>> # <<trials[b], trace[b]>>)

\* n = 6: the search has backtracked, out of a failed propagation and out of
\* an exhausted frame, and has returned a placement
C35_Witness ==
    /\ pc = "done"
    /\ n = 6
    /\ result # <<>>
    /\ Len(trace) > n
    /\ Len(trials) = Len(trace)
    /\ \E a, b \in 1 .. Len(trace) : a < b /\ trace[a] = trace[b]

\* rows u and v have domains of one size and as many neighbors
FullTie(u, v, doms, nbs) ==
    /\ Cardinality(doms[u]) = Cardinality(doms[v])
    /\ Len(nbs[u]) = Len(nbs[v])

\* C36 (MRV final tie-break): among the unassigned rows that tie with the
\* selected row on both domain cardinality and number of neighbors, the
\* selected row has the lowest index; this holds for the call of
\* select_unassigned_row on its own with the list of line 19 of
\* backtracking.py and for the row of every frame of the solver.
C36_LowestIndexTie ==
    /\ pc = "select_ret" =>
          \A u \in Range(args.passed.unassigned_rows) :
              FullTie(u, ret[1], args.passed.domains, args.passed.neighbors)
                  => ret[1] <= u
    /\ \A i \in 1 .. Len(stack) :
          \A u \in Range(unassigned_rows_of(stack[i].entry_assignment, n)) :
              FullTie(u, stack[i].row, stack[i].entry_domains, neighbors)
                  => stack[i].row <= u

\* three rows are passed; the last two tie and the first, with the larger
\* domain, does not: the lower of the two tied rows is returned
C36_Witness ==
    /\ pc = "select_ret"
    /\ args.passed.unassigned_rows = <<0, 1, 2>>
    /\ ret = <<1>>
    /\ FullTie(1, 2, args.passed.domains, args.passed.neighbors)
    /\ ~FullTie(0, 1, args.passed.domains, args.passed.neighbors)

\* C37 (command-line range check): main calls solve_nqueens_csp only when
\* 10 <= n <= 1000; for any n outside that range it prints the range
\* message and exits without calling solve_nqueens_csp.
C37_RangeCheck ==
    (pc = "main_exit" \/ pc = "main_solve") /\ args.argv # <<>> =>
        LET k == int(args.argv[1])
        IN  /\ ret[1].solve_nqueens_csp # <<>> => 10 <= k /\ k <= 1000
            /\ ~(10 <= k /\ k <= 1000) =>
                  /\ ret[1].printed = "The value must be between 10<=n<=1000"
                  /\ ret[1].exit # <<>>
                  /\ ret[1].solve_nqueens_csp = <<>>

====
